---- MODULE Spec2Model ----
(***************************************************************************)
(* GoSeC: a small PKI that splits every CA private key with Shamir secret  *)
(* sharing (github.com/hashicorp/vault/shamir) and recombines it only to   *)
(* sign.  Two parts are modelled:                                          *)
(*   - the secret-sharing engine over GF(2^8) as the program calls it      *)
(*     (specification SpecEngine);                                         *)
(*   - the three issuance operations of both front-ends, the command line  *)
(*     (cmd/cli, listed in README.md) and the GUI (cmd/gui/gui.go), over   *)
(*     an abstract file system (specification Spec).                       *)
(***************************************************************************)
EXTENDS Integers, Sequences, FiniteSets, TLC

VARIABLES
    shamir,     \* the last call made to the engine and what it returned
    fs,         \* the file system: path -> file content
    nextKey,    \* the next key pair ecdsa.GenerateKey will produce
    last,       \* the last issuance operation: inputs, result, event trace
    caKeys      \* history: keys generated for certificates with IsCA = true

vars == <<shamir, fs, nextKey, last, caKeys>>

----------------------------------------------------------------------------
(* Bounds of the model *)

MaxSecretLen == 2      \* longest secret handed to Split in SpecEngine
MaxParts == 4          \* largest small share count tried (255, 256 are tried too)
MaxKeys == 2           \* key pairs generated in one behaviour of Spec
MaxShares == 3         \* longest list of arbitrary shares handed to Combine
MaxChainKeys == 3      \* key pairs generated in one behaviour of SpecChain

SecretBytes == {0, 65, 255}
Secrets == UNION {[1..k -> SecretBytes] : k \in 0..MaxSecretLen}
PartsVals == (0..MaxParts) \cup {255, 256}
ThresholdVals == {0, 1, 2, 3}
CandidateBytes == {0, 1, 65, 66, 128, 255}

\* the entropy the program draws, cut down to a few outcomes: the order
\* mathrand.Perm(255) returns, and the byte stream read from crypto/rand
PermKinds == {"identity", "reverse"}
StreamKinds == {"zero", "mixed", "high"}

----------------------------------------------------------------------------
(* GF(2^8) arithmetic of the shamir package: bytes are 0..255, addition is  *)
(* exclusive or, multiplication and division go through log/exp tables of  *)
(* the field modulo x^8 + x^4 + x^3 + x + 1.                                *)

Byte == 0..255

RECURSIVE XorBits(_, _, _)
XorBits(a, b, k) ==
    IF k = 0 THEN 0
    ELSE (((a % 2) + (b % 2)) % 2) + 2 * XorBits(a \div 2, b \div 2, k - 1)

XorTable == [a \in Byte |-> [b \in Byte |-> XorBits(a, b, 8)]]

add(a, b) == XorTable[a][b]

\* multiplication by the generator x + 1 (0x03), reduced by 0x11B
timesGenerator(a) ==
    LET d == 2 * a
        r == IF d >= 256 THEN add(d % 256, 27) ELSE d
    IN  add(r, a)

RECURSIVE expSeq(_, _)
expSeq(i, v) == IF i = 255 THEN <<>> ELSE <<v>> \o expSeq(i + 1, timesGenerator(v))

\* expTable[i + 1] = generator^i, logTable[v] - 1 = the discrete logarithm of v
expTable == expSeq(0, 1)

logTable == [v \in 1..255 |-> CHOOSE i \in 1..255 : expTable[i] = v]

mult(a, b) ==
    IF a = 0 \/ b = 0 THEN 0
    ELSE expTable[(((logTable[a] - 1) + (logTable[b] - 1)) % 255) + 1]

\* div panics on b = 0; the callers below never pass 0 (Combine rejects
\* duplicate x values first), the value "panic" marks the case
div(a, b) ==
    IF b = 0 THEN "panic"
    ELSE IF a = 0 THEN 0
    ELSE expTable[((((logTable[a] - 1) - (logTable[b] - 1)) + 255) % 255) + 1]

\* polynomial.evaluate: Horner's rule over coefficients[0..degree],
\* here coeffs[1] is the intercept
RECURSIVE horner(_, _, _, _)
horner(coeffs, x, i, out) ==
    IF i = 0 THEN out
    ELSE horner(coeffs, x, i - 1, add(mult(out, x), coeffs[i]))

evaluate(coeffs, x) ==
    IF x = 0 THEN coeffs[1]
    ELSE horner(coeffs, x, Len(coeffs) - 1, coeffs[Len(coeffs)])

\* interpolatePolynomial(x_samples, y_samples, x): Lagrange interpolation
RECURSIVE basisFrom(_, _, _, _, _)
basisFrom(xs, x, i, j, basis) ==
    IF j > Len(xs) THEN basis
    ELSE IF i = j THEN basisFrom(xs, x, i, j + 1, basis)
    ELSE basisFrom(xs, x, i, j + 1,
                   mult(basis, div(add(x, xs[j]), add(xs[i], xs[j]))))

RECURSIVE interpolateFrom(_, _, _, _, _)
interpolateFrom(xs, ys, x, i, result) ==
    IF i > Len(xs) THEN result
    ELSE interpolateFrom(xs, ys, x, i + 1,
                         add(result, mult(ys[i], basisFrom(xs, x, i, 1, 1))))

interpolatePolynomial(xs, ys, x) == interpolateFrom(xs, ys, x, 1, 0)

----------------------------------------------------------------------------
(* shamir.Split and shamir.Combine *)

\* x values that come back after two shares
xCoordinatesRepeating(perm, i) ==
    IF perm = "identity" THEN (i - 1) % 2 ELSE 254 - ((i - 1) % 2)

\* xCoordinates[i - 1] of mathrand.Perm(255), a permutation of 0..254
xCoordinates(perm, i) ==
    IF perm = "identity" THEN i - 1 ELSE 255 - i

\* the k-th byte rand.Read delivers
randByte(stream, k) ==
    CASE stream = "zero" -> 0
      [] stream = "mixed" -> (83 * k + 29) % 256
      [] OTHER -> 255 - ((7 * k) % 256)

\* makePolynomial(intercept, degree) for the idx-th byte of the secret:
\* coefficients[0] = intercept, the other `degree` ones read from rand
makePolynomial(intercept, degree, stream, idx) ==
    [k \in 1..(degree + 1) |->
        IF k = 1 THEN intercept
        ELSE randByte(stream, (idx - 1) * degree + (k - 1))]

\* the x values taken as they come, 0 among them
shareXFromZero(perm, i) == xCoordinates(perm, i)

\* the x value stored in the last byte of share i
shareX(perm, i) == xCoordinates(perm, i) + 1

\* Split accepting a threshold of one
SplitErrorFromOne(secret, parts, threshold) ==
    IF parts < threshold THEN "parts cannot be less than threshold"
    ELSE IF parts > 255 THEN "parts cannot exceed 255"
    ELSE IF threshold < 1 THEN "threshold must be at least 1"
    ELSE IF threshold > 255 THEN "threshold cannot exceed 255"
    ELSE IF Len(secret) = 0 THEN "cannot split an empty secret"
    ELSE "nil"

\* the sanity checks of Split, in its order
SplitError(secret, parts, threshold) ==
    IF parts < threshold THEN "parts cannot be less than threshold"
    ELSE IF parts > 255 THEN "parts cannot exceed 255"
    ELSE IF threshold < 2 THEN "threshold must be at least 2"
    ELSE IF threshold > 255 THEN "threshold cannot exceed 255"
    ELSE IF Len(secret) = 0 THEN "cannot split an empty secret"
    ELSE "nil"

\* out[i] = {y_1, ..., y_L, x_i}
SplitShares(secret, parts, threshold, perm, stream) ==
    [i \in 1..parts |->
        [idx \in 1..(Len(secret) + 1) |->
            IF idx = Len(secret) + 1 THEN shareX(perm, i)
            ELSE evaluate(makePolynomial(secret[idx], threshold - 1, stream, idx),
                          shareX(perm, i))]]

Split(secret, parts, threshold, perm, stream) ==
    LET err == SplitError(secret, parts, threshold)
    IN  [err |-> err,
         shares |-> IF err = "nil"
                    THEN SplitShares(secret, parts, threshold, perm, stream)
                    ELSE <<>>]

\* Combine accepting a single part
CombineErrorFromOne(parts) ==
    IF Len(parts) < 1 THEN "less than two parts cannot be used to reconstruct the secret"
    ELSE IF Len(parts[1]) < 2 THEN "parts must be at least two bytes"
    ELSE IF \E i \in 2..Len(parts) : Len(parts[i]) # Len(parts[1])
         THEN "all parts must be the same length"
    ELSE IF \E i, j \in 1..Len(parts) :
                i < j /\ parts[i][Len(parts[1])] = parts[j][Len(parts[1])]
         THEN "duplicate part detected"
    ELSE "nil"

\* the sanity checks of Combine, in its order
CombineError(parts) ==
    IF Len(parts) < 2 THEN "less than two parts cannot be used to reconstruct the secret"
    ELSE IF Len(parts[1]) < 2 THEN "parts must be at least two bytes"
    ELSE IF \E i \in 2..Len(parts) : Len(parts[i]) # Len(parts[1])
         THEN "all parts must be the same length"
    ELSE IF \E i, j \in 1..Len(parts) :
                i < j /\ parts[i][Len(parts[1])] = parts[j][Len(parts[1])]
         THEN "duplicate part detected"
    ELSE "nil"

\* the x byte reconstructed along with the data bytes
CombineSecretWithX(parts) ==
    LET n == Len(parts[1])
        xs == [i \in 1..Len(parts) |-> parts[i][n]]
    IN  [idx \in 1..n |->
            interpolatePolynomial(xs, [i \in 1..Len(parts) |-> parts[i][idx]], 0)]

\* one byte per data byte: the polynomial through the parts, taken at 0
CombineSecret(parts) ==
    LET n == Len(parts[1])
        xs == [i \in 1..Len(parts) |-> parts[i][n]]
    IN  [idx \in 1..(n - 1) |->
            interpolatePolynomial(xs, [i \in 1..Len(parts) |-> parts[i][idx]], 0)]

Combine(parts) ==
    LET err == CombineError(parts)
    IN  [err |-> err, secret |-> IF err = "nil" THEN CombineSecret(parts) ELSE <<>>]

----------------------------------------------------------------------------
(* The engine on its own: one Split, then Combine over chosen shares *)

NoCall ==
    [call |-> "none", secret |-> <<>>, parts |-> 0, threshold |-> 0,
     perm |-> "identity", stream |-> "zero", err |-> "nil", shares |-> <<>>,
     picked |-> {}, cerr |-> "nil", out |-> <<>>, paths |-> <<>>]

\* the shares Combine may be handed: the first ones and the last one
PickIndices(parts) == {i \in 1..parts : i <= MaxParts \/ i = parts}

RECURSIVE SetToSeq(_)
SetToSeq(S) ==
    IF S = {} THEN <<>>
    ELSE LET m == CHOOSE x \in S : \A y \in S : x <= y
         IN  <<m>> \o SetToSeq(S \ {m})

PickShares(shares, picked) ==
    LET order == SetToSeq(picked)
    IN  [k \in 1..Len(order) |-> shares[order[k]]]

SplitCall ==
    /\ shamir.call = "none"
    /\ \E secret \in Secrets, parts \in PartsVals, threshold \in ThresholdVals,
          perm \in PermKinds, stream \in StreamKinds :
          LET r == Split(secret, parts, threshold, perm, stream)
          IN  shamir' = [NoCall EXCEPT !.call = "Split", !.secret = secret,
                            !.parts = parts, !.threshold = threshold,
                            !.perm = perm, !.stream = stream,
                            !.err = r.err, !.shares = r.shares]
    /\ UNCHANGED <<fs, nextKey, last, caKeys>>

CombineCall ==
    /\ shamir.call = "Split"
    /\ shamir.err = "nil"
    /\ \E picked \in SUBSET PickIndices(shamir.parts) :
          LET r == Combine(PickShares(shamir.shares, picked))
          IN  shamir' = [shamir EXCEPT !.call = "Combine", !.picked = picked,
                            !.cerr = r.err, !.out = r.secret]
    /\ UNCHANGED <<fs, nextKey, last, caKeys>>

\* shares as a reader of share files can hand them over: well-formed ones,
\* two with the same x, one with x = 0, a longer one and a one-byte one
ShareSamples == {<<5, 1>>, <<6, 1>>, <<7, 2>>, <<9, 0>>, <<5, 6, 1>>, <<3>>}

ShareLists == UNION {[1..k -> ShareSamples] : k \in 0..MaxShares}

\* Combine over shares that need not come from a Split
CombineAnyCall ==
    /\ shamir.call = "none"
    /\ \E parts \in ShareLists :
          LET r == Combine(parts)
          IN  shamir' = [NoCall EXCEPT !.call = "CombineAny", !.shares = parts,
                            !.cerr = r.err, !.out = r.secret]
    /\ UNCHANGED <<fs, nextKey, last, caKeys>>

----------------------------------------------------------------------------
(* Files, keys and certificates *)

\* every path an operation can name; "" names no file
PathNames ==
    {"c1", "c2", "c3", "k1", "s1", "s2", " s2", "s3", "u1", "u2", " ", "bad"}

\* paths os.WriteFile cannot create (a directory that does not exist)
Unwritable == {"bad"}

\* time.Duration is an int64 count of nanoseconds, held here as its 64 bits
\* in limbs of 12 bits, least significant first: five full limbs and a
\* sixth of 4 bits (TLC's own integers are 32 bits wide)
LimbBase == 4096
TopLimbBase == 16
Int64Limbs == 6

\* v * m on limbs for a small m >= 0, with every carry kept
RECURSIVE mulLimbs(_, _, _, _)
mulLimbs(v, m, i, carry) ==
    IF i > Len(v)
    THEN IF carry = 0 THEN <<>>
         ELSE <<carry % LimbBase>> \o mulLimbs(v, m, i, carry \div LimbBase)
    ELSE <<(v[i] * m + carry) % LimbBase>>
            \o mulLimbs(v, m, i + 1, (v[i] * m + carry) \div LimbBase)

\* the low 64 bits, as int64 arithmetic keeps them
wrapInt64(v) ==
    [i \in 1..Int64Limbs |->
        IF i > Len(v) THEN 0
        ELSE IF i = Int64Limbs THEN v[i] % TopLimbBase
        ELSE v[i]]

\* time.Duration(validityDays), for validityDays >= 0
Duration(n) == wrapInt64(<<n % LimbBase, n \div LimbBase>>)

\* d * m in int64
mulDuration(d, m) == wrapInt64(mulLimbs(d, m, 1, 0))

\* time.Hour = 60 * Minute = 60 * 60 * 1000 * 1000 * 1000 * Nanosecond
HourFactors == <<60, 60, 1000, 1000, 1000>>

RECURSIVE timesFactors(_, _, _)
timesFactors(d, factors, i) ==
    IF i > Len(factors) THEN d
    ELSE timesFactors(mulDuration(d, factors[i]), factors, i + 1)

\* time.Duration(validityDays) * 24 * time.Hour
ValidityDuration(validityDays) ==
    timesFactors(mulDuration(Duration(validityDays), 24), HourFactors, 1)

\* the fields of x509.Certificate the operations set or read; the serial
\* number is left out, Validity is NotAfter - NotBefore, MaxPathLen -1 is
\* "no constraint"
NoCert ==
    [Subject |-> "", Issuer |-> "", PublicKey |-> 0, SignedBy |-> 0,
     IsCA |-> FALSE, MaxPathLen |-> -1, KeyUsage |-> {}, Validity |-> Duration(0)]

NoFile == [type |-> "none", cert |-> NoCert, bytes |-> <<>>]

\* pem.EncodeToMemory of a certificate, of a key; base64 text of a share
CertificatePEM(cert) == [type |-> "CERTIFICATE", cert |-> cert, bytes |-> <<>>]
ECPrivateKeyPEM(keyBytes) == [type |-> "EC PRIVATE KEY", cert |-> NoCert, bytes |-> keyBytes]
Base64Text(b) == [type |-> "base64", cert |-> NoCert, bytes |-> b]

\* x509.MarshalECPrivateKey: a DER SEQUENCE (tag 0x30) holding the scalar;
\* a key pair is named by its scalar, 1..255
MarshalECPrivateKey(key) == <<48, key>>

\* x509.ParseECPrivateKey: the bytes must be that structure, the scalar not 0
ParseECPrivateKey(der) ==
    IF Len(der) = 2 /\ der[1] = 48 /\ der[2] # 0
    THEN [err |-> "nil", key |-> der[2]]
    ELSE [err |-> "x509: failed to parse EC private key", key |-> 0]

\* the running operation: the file system, the key source, the events so
\* far, and the values of its local variables parentCert / caCert and
\* parentKey / caKey (NoCert, 0 = not assigned)
Log(st, ev, path, key) ==
    [st EXCEPT !.trace = Append(@, [ev |-> ev, path |-> path, key |-> key,
                                     parentKey |-> st.parentKey])]

\* os.WriteFile: creates or truncates, then writes
WriteFile(st, path, content) ==
    IF path = "" \/ path \in Unwritable
    THEN [st |-> st, err |-> "open: no such file or directory"]
    ELSE [st |-> Log([st EXCEPT !.fs[path] = content], "WriteFile", path, 0),
          err |-> "nil"]

\* os.ReadFile
ReadFile(st, path) ==
    IF path = "" \/ path \notin DOMAIN st.fs \/ st.fs[path] = NoFile
    THEN [st |-> st, err |-> "open: no such file or directory", data |-> NoFile]
    ELSE [st |-> Log(st, "ReadFile", path, 0), err |-> "nil", data |-> st.fs[path]]

\* BuildSubject: only the common name is required; the five optional
\* fields are copied when set and are left out here
BuildSubject(cn) ==
    IF cn = "" THEN [err |-> "common name (CN) is required", subject |-> ""]
    ELSE [err |-> "nil", subject |-> cn]

\* createSubjectFromInputs: the same copy, without the check
createSubjectFromInputs(cn) == cn

\* a certificate signed with whatever key is handed over
CreateCertificateUnmatched(template, parent, pub, priv) ==
    [err |-> "nil",
     cert |-> [template EXCEPT !.Issuer = parent.Subject,
                               !.PublicKey = pub, !.SignedBy = priv]]

\* x509.CreateCertificate(rand, template, parent, pub, priv): the issuer is
\* the parent's subject, the signature is made with priv; a parent that
\* carries a public key must carry the one of priv
CreateCertificate(template, parent, pub, priv) ==
    IF parent.PublicKey # 0 /\ parent.PublicKey # priv
    THEN [err |-> "x509: provided PrivateKey doesn't match parent's PublicKey",
          cert |-> NoCert]
    ELSE [err |-> "nil",
          cert |-> [template EXCEPT !.Issuer = parent.Subject,
                                    !.PublicKey = pub, !.SignedBy = priv]]

\* the path-length constraint a new certificate gets
TemplateMaxPathLen(isCA) == IF isCA THEN 1 ELSE -1

\* certificate signing added to every certificate
TemplateKeyUsageAlwaysSign(isCA, keyUsage) == keyUsage \cup {"CertSign"}

\* the key usage a new certificate gets
TemplateKeyUsage(isCA, keyUsage) ==
    IF isCA THEN keyUsage \cup {"CertSign"} ELSE keyUsage

\* self-signed only when both are nil
SelfSignedBothNil(parentCert, parentKey) == parentCert = NoCert /\ parentKey = 0

\* which key signs: the new one when parentCert or parentKey is nil
SelfSigned(parentCert, parentKey) == parentCert = NoCert \/ parentKey = 0

GenerateKeyAndCert(st, subject, parentCert, parentKey, isCA, validityDays, keyUsage) ==
    LET priv == st.nextKey
        st1 == Log([st EXCEPT !.nextKey = @ + 1], "GenerateKey", "", priv)
        template == [NoCert EXCEPT !.Subject = subject, !.IsCA = isCA,
                                   !.MaxPathLen = TemplateMaxPathLen(isCA),
                                   !.KeyUsage = TemplateKeyUsage(isCA, keyUsage),
                                   !.Validity = ValidityDuration(validityDays)]
        made == IF SelfSigned(parentCert, parentKey)
                THEN CreateCertificate(template, template, priv, priv)
                ELSE CreateCertificate(template, parentCert, priv, parentKey)
    IN  IF made.err # "nil"
        THEN [st |-> st1, err |-> made.err, certPEM |-> NoFile, priv |-> 0]
        ELSE [st |-> Log(st1, "CreateCertificate", "", made.cert.SignedBy),
              err |-> "nil", certPEM |-> CertificatePEM(made.cert), priv |-> priv]

\* ParseCertificateFromFile
ParseCertificateFromFile(st, path) ==
    LET r == ReadFile(st, path)
    IN  IF r.err # "nil"
        THEN [st |-> r.st, err |-> "unable to read certificate file", cert |-> NoCert]
        ELSE IF r.data.type # "CERTIFICATE"
        THEN [st |-> r.st, err |-> "failed to decode PEM block containing certificate",
              cert |-> NoCert]
        ELSE [st |-> r.st, err |-> "nil", cert |-> r.data.cert]

WriteCertificateToFile(st, certPEM, outPath) == WriteFile(st, outPath, certPEM)

WriteECPrivateKeyToFile(st, privKey, outPath) ==
    WriteFile(Log(st, "MarshalECPrivateKey", "", privKey), outPath,
              ECPrivateKeyPEM(MarshalECPrivateKey(privKey)))

\* the loop of CombineSharesFromFiles over paths[i..]
RECURSIVE ReadShares(_, _, _, _)
ReadShares(st, paths, i, shares) ==
    IF i > Len(paths) THEN [st |-> st, err |-> "nil", shares |-> shares]
    ELSE LET r == ReadFile(st, paths[i])
         IN  IF r.err # "nil"
             THEN [st |-> r.st, err |-> "cannot read share file", shares |-> <<>>]
             ELSE IF r.data.type # "base64"
             THEN [st |-> r.st, err |-> "failed to decode base64", shares |-> <<>>]
             ELSE ReadShares(r.st, paths, i + 1, Append(shares, r.data.bytes))

CombineSharesFromFiles(st, paths) ==
    LET r == ReadShares(st, paths, 1, <<>>)
    IN  IF r.err # "nil" THEN [st |-> r.st, err |-> r.err, keyBytes |-> <<>>]
        ELSE LET c == Combine(r.shares)
             IN  IF c.err # "nil"
                 THEN [st |-> r.st, err |-> "shamir combine error", keyBytes |-> <<>>]
                 ELSE [st |-> Log(r.st, "Combine", "", 0), err |-> "nil",
                       keyBytes |-> c.secret]

\* the loop of SplitKeyAndWriteShares over shares[i..]; its error text names
\* the path that failed and no other (st.named: the share destinations the
\* error names)
RECURSIVE WriteShares(_, _, _, _)
WriteShares(st, shares, sharePaths, i) ==
    IF i > Len(shares) THEN [st |-> st, err |-> "nil"]
    ELSE LET w == WriteFile(st, sharePaths[i], Base64Text(shares[i]))
         IN  IF w.err # "nil"
             THEN [st |-> [w.st EXCEPT !.named = <<sharePaths[i]>>],
                   err |-> "failed to write share file"]
             ELSE WriteShares(w.st, shares, sharePaths, i + 1)

\* every path given the first share
SplitKeyAndWriteSharesFirstShare(st, privKey, n, t, sharePaths, perm, stream) ==
    IF Len(sharePaths) # n
    THEN [st |-> st, err |-> "number of share paths does not match n"]
    ELSE LET keyBytes == MarshalECPrivateKey(privKey)
             r == Split(keyBytes, n, t, perm, stream)
         IN  IF r.err # "nil" THEN [st |-> st, err |-> "shamir split error"]
             ELSE WriteShares(Log(st, "Split", "", privKey),
                              [i \in 1..Len(r.shares) |-> r.shares[1]], sharePaths, 1)

SplitKeyAndWriteShares(st, privKey, n, t, sharePaths, perm, stream) ==
    IF Len(sharePaths) # n
    THEN [st |-> st, err |-> "number of share paths does not match n"]
    ELSE LET keyBytes == MarshalECPrivateKey(privKey)
             r == Split(keyBytes, n, t, perm, stream)
         IN  IF r.err # "nil" THEN [st |-> st, err |-> "shamir split error"]
             ELSE WriteShares(Log(st, "Split", "", privKey), r.shares, sharePaths, 1)

----------------------------------------------------------------------------
(* Text inputs.  A comma-separated entry is held as the list of its items  *)
(* (what strings.Split(s, ",") returns): "" is <<"">>, "a, b" is           *)
(* <<"a", " b">>.  A number entry either reads as an integer or does not.  *)

\* strings.TrimSpace, TrimLeft and TrimRight of white space, on one item
TrimSpaceItem(s) == CASE s = " " -> "" [] s = " s2" -> "s2" [] OTHER -> s
TrimLeftItem(s) == TrimSpaceItem(s)
TrimRightItem(s) == IF s = " " THEN "" ELSE s

\* strings.TrimSpace of the whole entry: only its two ends are trimmed
TrimSpaceText(text) ==
    IF Len(text) = 1 THEN <<TrimSpaceItem(text[1])>>
    ELSE [i \in 1..Len(text) |->
            IF i = 1 THEN TrimLeftItem(text[1])
            ELSE IF i = Len(text) THEN TrimRightItem(text[i])
            ELSE text[i]]

RECURSIVE TrimmedNonEmpty(_, _)
TrimmedNonEmpty(parts, i) ==
    IF i > Len(parts) THEN <<>>
    ELSE LET q == TrimSpaceItem(parts[i])
         IN  (IF q # "" THEN <<q>> ELSE <<>>) \o TrimmedNonEmpty(parts, i + 1)

\* ParseCommaSeparatedPaths: nil for a blank entry, else the trimmed,
\* non-empty items
ParseCommaSeparatedPaths(input) ==
    IF TrimSpaceText(input) = <<"">> THEN <<>>
    ELSE TrimmedNonEmpty(input, 1)

\* the GUI's strings.Split(strings.TrimSpace(entry.Text), ",")
SplitTrimmed(text) == TrimSpaceText(text)

\* strconv.Atoi
Atoi(text) ==
    IF text.ok THEN [err |-> "nil", val |-> text.val]
    ELSE [err |-> "strconv.Atoi: invalid syntax", val |-> 0]

\* the key-usage flags of the sign command, and of the GUI's check boxes
UsageFlags ==
    {"DigitalSignature", "KeyEncipherment", "DataEncipherment", "KeyAgreement",
     "CRLSign", "EncipherOnly", "DecipherOnly"}

CliKeyUsage(checked) == {f \in UsageFlags : f \in checked}
GuiKeyUsage(checked) == {f \in UsageFlags : f \in checked}

----------------------------------------------------------------------------
(* The operations.  Each takes the running state st and the request and    *)
(* returns the state it leaves, its error ("nil" on success) and what it   *)
(* produced.  An operation is written as its steps in order, each step an  *)
(* operator that receives what the steps before it returned; the two       *)
(* front-ends differ in how they read the entries and run the same steps   *)
(* after that.  Error messages are shortened to the CLI's wording.         *)

Start ==
    [fs |-> fs, nextKey |-> nextKey, trace |-> <<>>, parentCert |-> NoCert,
     parentKey |-> 0, named |-> <<>>]

Outcome(st, err, sharePaths, priv, certPEM) ==
    [st |-> st, err |-> err, sharePaths |-> sharePaths, priv |-> priv,
     cert |-> certPEM.cert]

DefaultCAUsage == {"KeyEncipherment", "DigitalSignature"}

\* the end of create-root and create-subca: the result of SplitKeyAndWriteShares
SplitDone(sp, g, sharePaths) ==
    Outcome(sp.st, IF sp.err = "nil" THEN "nil" ELSE "failed to split key: " \o sp.err,
            sharePaths, g.priv, g.certPEM)

\* create-root after the certificate was written
RootSplit(w, g, n, t, sharePaths, perm, stream) ==
    IF w.err # "nil"
    THEN Outcome(w.st, "failed to write root CA cert", sharePaths, g.priv, g.certPEM)
    ELSE SplitDone(SplitKeyAndWriteShares(w.st, g.priv, n, t, sharePaths, perm, stream),
                   g, sharePaths)

\* create-root after GenerateKeyAndCert
RootPersist(g, pemOut, n, t, sharePaths, perm, stream) ==
    IF g.err # "nil"
    THEN Outcome(g.st, "failed to generate root CA", sharePaths, 0, NoFile)
    ELSE RootSplit(WriteCertificateToFile(g.st, g.certPEM, pemOut), g, n, t,
                   sharePaths, perm, stream)

\* create-root once the entries are read and checked
IssueRoot(st, subject, days, n, t, pemOut, sharePaths, perm, stream) ==
    RootPersist(GenerateKeyAndCert(st, subject, NoCert, 0, TRUE, days, DefaultCAUsage),
                pemOut, n, t, sharePaths, perm, stream)

\* createRootCmd.RunE
CliCreateRoot(st, req, perm, stream) ==
    LET b == BuildSubject(req.cn)
        sharePaths == ParseCommaSeparatedPaths(req.sharesOut)
    IN  IF ~(req.days.ok /\ req.n.ok /\ req.t.ok)
        THEN Outcome(st, "invalid argument for flag", <<>>, 0, NoFile)
        ELSE IF b.err # "nil" THEN Outcome(st, b.err, <<>>, 0, NoFile)
        ELSE IF req.pemOut = ""
        THEN Outcome(st, "must specify --pem-out", <<>>, 0, NoFile)
        ELSE IF req.sharesOut = <<"">>
        THEN Outcome(st, "must specify --shares-out", <<>>, 0, NoFile)
        ELSE IF Len(sharePaths) = 0
        THEN Outcome(st, "no valid file paths found in --shares-out", <<>>, 0, NoFile)
        ELSE IF req.n.val # Len(sharePaths)
        THEN Outcome(st, "number of share files does not match n", sharePaths, 0, NoFile)
        ELSE IssueRoot(st, b.subject, req.days.val, req.n.val, req.t.val,
                       req.pemOut, sharePaths, perm, stream)

\* createRootTab, the "Create Root CA" button
GuiCreateRoot(st, req, perm, stream) ==
    LET subject == createSubjectFromInputs(req.cn)
        days == Atoi(req.days)
        n == Atoi(req.n)
        t == Atoi(req.t)
        sharePaths == SplitTrimmed(req.sharesOut)
    IN  IF days.err # "nil" THEN Outcome(st, "invalid days", <<>>, 0, NoFile)
        ELSE IF n.err # "nil" THEN Outcome(st, "invalid n", <<>>, 0, NoFile)
        ELSE IF t.err # "nil" THEN Outcome(st, "invalid t", <<>>, 0, NoFile)
        ELSE IF req.pemOut = ""
        THEN Outcome(st, "must specify --pem-out", <<>>, 0, NoFile)
        ELSE IF Len(sharePaths) # n.val
        THEN Outcome(st, "number of share files does not match n", sharePaths, 0, NoFile)
        ELSE IssueRoot(st, subject, days.val, n.val, t.val, req.pemOut,
                       sharePaths, perm, stream)

\* create-subca and sign, the parent: the key parsed from the combined bytes
LoadParentKey(st, pk) ==
    IF pk.err # "nil" THEN [st |-> st, err |-> "failed to parse parent private key"]
    ELSE [st |-> Log([st EXCEPT !.parentKey = pk.key], "ParseECPrivateKey", "", pk.key),
          err |-> "nil"]

\* ... the shares combined
LoadParentBytes(cb) ==
    IF cb.err # "nil" THEN [st |-> cb.st, err |-> "failed to combine parent shares"]
    ELSE LoadParentKey(cb.st, ParseECPrivateKey(cb.keyBytes))

\* ... the certificate parsed
LoadParentShares(pc, parentSharePaths) ==
    IF pc.err # "nil" THEN [st |-> pc.st, err |-> "failed to parse parent certificate"]
    ELSE IF Len(parentSharePaths) = 0
    THEN [st |-> [pc.st EXCEPT !.parentCert = pc.cert],
          err |-> "no valid file paths for the parent shares"]
    ELSE LoadParentBytes(CombineSharesFromFiles([pc.st EXCEPT !.parentCert = pc.cert],
                                                parentSharePaths))

LoadParent(st, parentPem, parentSharePaths) ==
    IF parentPem = "" THEN [st |-> st, err |-> "must specify the parent certificate"]
    ELSE LoadParentShares(ParseCertificateFromFile(st, parentPem), parentSharePaths)

\* create-subca after the certificate was written
SubCASplit(w, g, n, t, sharePaths, perm, stream) ==
    IF w.err # "nil"
    THEN Outcome(w.st, "failed to write subCA certificate", <<>>, g.priv, g.certPEM)
    ELSE IF n.err # "nil" THEN Outcome(w.st, "invalid n", <<>>, g.priv, g.certPEM)
    ELSE IF t.err # "nil" THEN Outcome(w.st, "invalid t", <<>>, g.priv, g.certPEM)
    ELSE IF n.val # Len(sharePaths)
    THEN Outcome(w.st, "number of share files does not match n", sharePaths,
                 g.priv, g.certPEM)
    ELSE SplitDone(SplitKeyAndWriteShares(w.st, g.priv, n.val, t.val, sharePaths,
                                          perm, stream),
                   g, sharePaths)

\* create-subca after GenerateKeyAndCert
SubCAPersist(g, pemOut, n, t, sharePaths, perm, stream) ==
    IF g.err # "nil" THEN Outcome(g.st, "failed to generate subCA", <<>>, 0, NoFile)
    ELSE IF pemOut = ""
    THEN Outcome(g.st, "must specify --pem-out", <<>>, g.priv, g.certPEM)
    ELSE SubCASplit(WriteCertificateToFile(g.st, g.certPEM, pemOut), g, n, t,
                    sharePaths, perm, stream)

\* the new key generated and signed whatever loading the parent returned
IssueSubCAUnchecked(p, subject, days, pemOut, n, t, sharePaths, perm, stream) ==
    SubCAPersist(GenerateKeyAndCert(p.st, subject, p.st.parentCert,
                                    p.st.parentKey, TRUE, days, DefaultCAUsage),
                 pemOut, n, t, sharePaths, perm, stream)

\* create-subca once the parent is loaded; n and t are read (Atoi in the
\* GUI) and the share paths counted only after the certificate is written
IssueSubCA(p, subject, days, pemOut, n, t, sharePaths, perm, stream) ==
    IF p.err # "nil" THEN Outcome(p.st, p.err, <<>>, 0, NoFile)
    ELSE SubCAPersist(GenerateKeyAndCert(p.st, subject, p.st.parentCert,
                                         p.st.parentKey, TRUE, days, DefaultCAUsage),
                      pemOut, n, t, sharePaths, perm, stream)

\* createSubCACmd.RunE
CliCreateSubCA(st, req, perm, stream) ==
    LET b == BuildSubject(req.cn)
    IN  IF ~(req.days.ok /\ req.n.ok /\ req.t.ok)
        THEN Outcome(st, "invalid argument for flag", <<>>, 0, NoFile)
        ELSE IF b.err # "nil" THEN Outcome(st, b.err, <<>>, 0, NoFile)
        ELSE IssueSubCA(LoadParent(st, req.parentPem,
                                   ParseCommaSeparatedPaths(req.parentSharesIn)),
                        b.subject, req.days.val, req.pemOut, Atoi(req.n), Atoi(req.t),
                        ParseCommaSeparatedPaths(req.sharesOut), perm, stream)

\* createSubCATab, the "Create SubCA" button
GuiCreateSubCA(st, req, perm, stream) ==
    LET days == Atoi(req.days)
    IN  IF days.err # "nil" THEN Outcome(st, "invalid days", <<>>, 0, NoFile)
        ELSE IssueSubCA(LoadParent(st, req.parentPem, SplitTrimmed(req.parentSharesIn)),
                        createSubjectFromInputs(req.cn), days.val, req.pemOut,
                        Atoi(req.n), Atoi(req.t), SplitTrimmed(req.sharesOut),
                        perm, stream)

\* sign after the leaf key was written
LeafKeyDone(k, g) ==
    Outcome(k.st, IF k.err = "nil" THEN "nil" ELSE "failed to write leaf private key",
            <<>>, g.priv, g.certPEM)

\* the CA's key written in place of the leaf's
LeafKeyOfParent(w, g, keyOut) ==
    IF w.err # "nil"
    THEN Outcome(w.st, "failed to write signed certificate", <<>>, g.priv, g.certPEM)
    ELSE IF keyOut = "" THEN Outcome(w.st, "nil", <<>>, g.priv, g.certPEM)
    ELSE LeafKeyDone(WriteECPrivateKeyToFile(w.st, w.st.parentKey, keyOut), g)

\* sign after the certificate was written: the key only when a path is given
LeafKey(w, g, keyOut) ==
    IF w.err # "nil"
    THEN Outcome(w.st, "failed to write signed certificate", <<>>, g.priv, g.certPEM)
    ELSE IF keyOut = "" THEN Outcome(w.st, "nil", <<>>, g.priv, g.certPEM)
    ELSE LeafKeyDone(WriteECPrivateKeyToFile(w.st, g.priv, keyOut), g)

\* the leaf key written first, the certificate after it
LeafPersistKeyFirst(g, certOut, keyOut) ==
    IF g.err # "nil"
    THEN Outcome(g.st, "failed to sign leaf certificate", <<>>, 0, NoFile)
    ELSE IF certOut = ""
    THEN Outcome(g.st, "must specify --cert-out", <<>>, g.priv, g.certPEM)
    ELSE LeafKey(WriteCertificateToFile(WriteECPrivateKeyToFile(g.st, g.priv, keyOut).st,
                                        g.certPEM, certOut),
                 g, "")

\* sign after GenerateKeyAndCert
LeafPersist(g, certOut, keyOut) ==
    IF g.err # "nil"
    THEN Outcome(g.st, "failed to sign leaf certificate", <<>>, 0, NoFile)
    ELSE IF certOut = ""
    THEN Outcome(g.st, "must specify --cert-out", <<>>, g.priv, g.certPEM)
    ELSE LeafKey(WriteCertificateToFile(g.st, g.certPEM, certOut), g, keyOut)

\* sign once the CA is loaded
IssueLeaf(p, subject, days, keyUsage, certOut, keyOut) ==
    IF p.err # "nil" THEN Outcome(p.st, p.err, <<>>, 0, NoFile)
    ELSE LeafPersist(GenerateKeyAndCert(p.st, subject, p.st.parentCert,
                                        p.st.parentKey, FALSE, days, keyUsage),
                     certOut, keyOut)

\* signCmd.RunE
CliSign(st, req) ==
    LET b == BuildSubject(req.cn)
    IN  IF ~req.days.ok THEN Outcome(st, "invalid argument for flag", <<>>, 0, NoFile)
        ELSE IF b.err # "nil" THEN Outcome(st, b.err, <<>>, 0, NoFile)
        ELSE IssueLeaf(LoadParent(st, req.parentPem,
                                  ParseCommaSeparatedPaths(req.parentSharesIn)),
                       b.subject, req.days.val, CliKeyUsage(req.usage),
                       req.pemOut, req.keyOut)

\* signTab, the "Sign Leaf Certificate" button
GuiSign(st, req) ==
    LET days == Atoi(req.days)
    IN  IF days.err # "nil" THEN Outcome(st, "invalid days", <<>>, 0, NoFile)
        ELSE IssueLeaf(LoadParent(st, req.parentPem, SplitTrimmed(req.parentSharesIn)),
                       createSubjectFromInputs(req.cn), days.val,
                       GuiKeyUsage(req.usage), req.pemOut, req.keyOut)

----------------------------------------------------------------------------
(* The engine through the file layer: one SplitKeyAndWriteShares, then     *)
(* CombineSharesFromFiles over chosen files                                *)

SharePathLists ==
    {<<"s1", "s2">>, <<"s1", "s2", "s3">>, <<"s1", "s2", "s3", "u1">>,
     <<"s1", "s1">>, <<"s1", "bad">>, <<"s1">>}

PartsFileVals == 1..MaxParts

PickPaths(paths, picked) ==
    LET order == SetToSeq(picked)
    IN  [k \in 1..Len(order) |-> paths[order[k]]]

SplitKeyAndWriteSharesCall ==
    /\ shamir.call = "none"
    /\ \E privKey \in 1..MaxKeys, n \in PartsFileVals, t \in ThresholdVals,
          sharePaths \in SharePathLists, perm \in PermKinds, stream \in StreamKinds :
          LET r == SplitKeyAndWriteShares(Start, privKey, n, t, sharePaths, perm, stream)
          IN  /\ shamir' = [NoCall EXCEPT !.call = "SplitKeyAndWriteShares",
                                !.secret = MarshalECPrivateKey(privKey),
                                !.parts = n, !.threshold = t, !.perm = perm,
                                !.stream = stream, !.err = r.err,
                                !.paths = sharePaths]
              /\ fs' = r.st.fs
    /\ UNCHANGED <<nextKey, last, caKeys>>

CombineSharesFromFilesCall ==
    /\ shamir.call = "SplitKeyAndWriteShares"
    /\ shamir.err = "nil"
    /\ \E picked \in SUBSET (1..Len(shamir.paths)) :
          LET r == CombineSharesFromFiles(Start, PickPaths(shamir.paths, picked))
          IN  shamir' = [shamir EXCEPT !.call = "CombineSharesFromFiles",
                            !.picked = picked, !.cerr = r.err, !.out = r.keyBytes]
    /\ UNCHANGED <<fs, nextKey, last, caKeys>>

----------------------------------------------------------------------------
(* The requests tried *)

Num(v) == [ok |-> TRUE, val |-> v]
NotANumber == [ok |-> FALSE, val |-> 0]

NoRequest ==
    [cn |-> "", days |-> Num(0), n |-> Num(0), t |-> Num(0), pemOut |-> "",
     sharesOut |-> <<"">>, parentPem |-> "", parentSharesIn |-> <<"">>,
     keyOut |-> "", usage |-> {}]

RootRequests ==
    [cn : {"", "A"}, days : {Num(365)}, n : {Num(2), Num(3), NotANumber},
     t : {Num(1), Num(2), Num(3)}, pemOut : {"", "c1"},
     sharesOut : {<<"">>, <<"s1", "s2">>, <<"s1", " s2">>, <<"s1", "s2", "s3">>,
                  <<"s1", "s1">>, <<"s1", "bad">>, <<"s1", "", "s2">>},
     parentPem : {""}, parentSharesIn : {<<"">>}, keyOut : {""}, usage : {{}}]

ParentShareTexts ==
    {<<"">>, <<"s1", "s2">>, <<"s1">>, <<"s1", " s2">>, <<"s2", "s3">>,
     <<"u1", "u2">>}

SubCARequests ==
    [cn : {"", "B"}, days : {Num(365)}, n : {Num(2), NotANumber},
     t : {Num(1), Num(2)}, pemOut : {"", "c2"},
     sharesOut : {<<"u1", "u2">>, <<"u1">>, <<"u1", "u1">>, <<"s1", "s2">>},
     parentPem : {"", "c1", "c2", "s1"}, parentSharesIn : ParentShareTexts,
     keyOut : {""}, usage : {{}}]

\* one year, and the first number of days whose nanoseconds pass 2^63
LeafDays == {Num(365), Num(106752)}

\* every request with one year of validity, and the long validity with the
\* inputs of a signing that goes through
SignRequests ==
    [cn : {"", "L"}, days : {Num(365)}, n : {Num(0)}, t : {Num(0)},
     pemOut : {"", "c2"}, sharesOut : {<<"">>},
     parentPem : {"", "c1", "c2"}, parentSharesIn : ParentShareTexts,
     keyOut : {"", "k1"},
     usage : {{}, {"DigitalSignature", "KeyEncipherment"}, UsageFlags}]
    \cup
    [cn : {"L"}, days : LeafDays, n : {Num(0)}, t : {Num(0)},
     pemOut : {"c2"}, sharesOut : {<<"">>},
     parentPem : {"c1"}, parentSharesIn : {<<"s1", "s2">>},
     keyOut : {"", "k1"}, usage : {{}}]

\* the entropy of one Split inside an operation
OpPerms == {"identity"}
OpStreams == {"mixed"}

----------------------------------------------------------------------------
(* The state machine *)

NoOperation ==
    [op |-> "none", fe |-> "none", req |-> NoRequest, err |-> "nil",
     trace |-> <<>>, changed |-> FALSE, priv |-> 0, cert |-> NoCert,
     sharePaths |-> <<>>, parentCert |-> NoCert, parentKey |-> 0,
     named |-> <<>>]

Init ==
    /\ shamir = NoCall
    /\ fs = [p \in PathNames |-> NoFile]
    /\ nextKey = 1
    /\ last = NoOperation
    /\ caKeys = {}

\* An operation that changed neither a file nor the key source leaves the
\* program where it was: another operation after it is that operation in
\* its place.  So operations are tried from the initial state and after
\* operations that changed something.
Ready == nextKey <= MaxKeys /\ (last.op = "none" \/ last.changed)

Finish(op, fe, req, r, isCA) ==
    /\ fs' = r.st.fs
    /\ nextKey' = r.st.nextKey
    /\ caKeys' = IF isCA /\ r.st.nextKey # nextKey THEN caKeys \cup {nextKey} ELSE caKeys
    /\ last' = [op |-> op, fe |-> fe, req |-> req, err |-> r.err,
                trace |-> r.st.trace,
                changed |-> (r.st.fs # fs \/ r.st.nextKey # nextKey),
                priv |-> r.priv, cert |-> r.cert, sharePaths |-> r.sharePaths,
                parentCert |-> r.st.parentCert, parentKey |-> r.st.parentKey,
                named |-> r.st.named]
    /\ UNCHANGED shamir

CreateRootCLI ==
    /\ Ready
    /\ \E req \in RootRequests, perm \in OpPerms, stream \in OpStreams :
          Finish("create-root", "cli", req, CliCreateRoot(Start, req, perm, stream), TRUE)

CreateRootGUI ==
    /\ Ready
    /\ \E req \in RootRequests, perm \in OpPerms, stream \in OpStreams :
          Finish("create-root", "gui", req, GuiCreateRoot(Start, req, perm, stream), TRUE)

CreateSubCACLI ==
    /\ Ready
    /\ \E req \in SubCARequests, perm \in OpPerms, stream \in OpStreams :
          Finish("create-subca", "cli", req, CliCreateSubCA(Start, req, perm, stream), TRUE)

CreateSubCAGUI ==
    /\ Ready
    /\ \E req \in SubCARequests, perm \in OpPerms, stream \in OpStreams :
          Finish("create-subca", "gui", req, GuiCreateSubCA(Start, req, perm, stream), TRUE)

SignCLI ==
    /\ Ready
    /\ \E req \in SignRequests :
          Finish("sign", "cli", req, CliSign(Start, req), FALSE)

SignGUI ==
    /\ Ready
    /\ \E req \in SignRequests :
          Finish("sign", "gui", req, GuiSign(Start, req), FALSE)

Next ==
    \/ CreateRootCLI
    \/ CreateRootGUI
    \/ CreateSubCACLI
    \/ CreateSubCAGUI
    \/ SignCLI
    \/ SignGUI

Spec == Init /\ [][Next]_vars

NextEngine ==
    \/ SplitCall
    \/ CombineCall
    \/ SplitKeyAndWriteSharesCall
    \/ CombineSharesFromFilesCall
    \/ CombineAnyCall

SpecEngine == Init /\ [][NextEngine]_vars

----------------------------------------------------------------------------
(* Chains: operations with well-formed entries, one key pair more, so that *)
(* a CA under a CA under a root, and a second CA beside the first, exist   *)

ChainRootRequests ==
    [cn : {"A"}, days : {Num(365)}, n : {Num(2)}, t : {Num(2)}, pemOut : {"c1"},
     sharesOut : {<<"s1", "s2">>}, parentPem : {""}, parentSharesIn : {<<"">>},
     keyOut : {""}, usage : {{}}]

ChainSubCARequests ==
    [cn : {"B"}, days : {Num(365)}, n : {Num(2)}, t : {Num(2)},
     pemOut : {"c2", "c3"}, sharesOut : {<<"u1", "u2">>, <<"s1", "s2">>},
     parentPem : {"c1", "c2"}, parentSharesIn : {<<"s1", "s2">>, <<"u1", "u2">>},
     keyOut : {""}, usage : {{}}]

ChainSignRequests ==
    [cn : {"L"}, days : {Num(365)}, n : {Num(0)}, t : {Num(0)},
     pemOut : {"c3"}, sharesOut : {<<"">>},
     parentPem : {"c1", "c2"}, parentSharesIn : {<<"s1", "s2">>, <<"u1", "u2">>},
     keyOut : {"", "k1"}, usage : {{}, {"DigitalSignature"}}]

FrontEnds == {"cli", "gui"}

ChainReady == nextKey <= MaxChainKeys /\ (last.op = "none" \/ last.changed)

ChainCreateRoot ==
    /\ ChainReady
    /\ \E req \in ChainRootRequests, fe \in FrontEnds, perm \in OpPerms, stream \in OpStreams :
          Finish("create-root", fe, req,
                 IF fe = "cli" THEN CliCreateRoot(Start, req, perm, stream)
                 ELSE GuiCreateRoot(Start, req, perm, stream), TRUE)

ChainCreateSubCA ==
    /\ ChainReady
    /\ \E req \in ChainSubCARequests, fe \in FrontEnds, perm \in OpPerms, stream \in OpStreams :
          Finish("create-subca", fe, req,
                 IF fe = "cli" THEN CliCreateSubCA(Start, req, perm, stream)
                 ELSE GuiCreateSubCA(Start, req, perm, stream), TRUE)

ChainSign ==
    /\ ChainReady
    /\ \E req \in ChainSignRequests, fe \in FrontEnds :
          Finish("sign", fe, req,
                 IF fe = "cli" THEN CliSign(Start, req) ELSE GuiSign(Start, req), FALSE)

NextChain ==
    \/ ChainCreateRoot
    \/ ChainCreateSubCA
    \/ ChainSign

SpecChain == Init /\ [][NextChain]_vars

----------------------------------------------------------------------------
(* Properties of the secret-sharing engine (SpecEngine) *)

\* the files picked are different files
DistinctFiles(paths, picked) ==
    \A i, j \in picked : i # j => paths[i] # paths[j]

\* C1: round trip.  Combine over shares of one successful Split, as many
\* different ones as the threshold or more, returns no error and exactly the
\* secret that was split; CombineSharesFromFiles over that many different
\* files written by one successful SplitKeyAndWriteShares returns exactly the
\* marshalled key bytes that were split.
RoundTrip ==
    /\ (shamir.call = "Combine" /\ Cardinality(shamir.picked) >= shamir.threshold)
          => (shamir.cerr = "nil" /\ shamir.out = shamir.secret)
    /\ (/\ shamir.call = "CombineSharesFromFiles"
        /\ DistinctFiles(shamir.paths, shamir.picked)
        /\ Cardinality(shamir.picked) >= shamir.threshold)
          => (shamir.cerr = "nil" /\ shamir.out = shamir.secret)

\* three of four shares of a two-byte secret split with threshold 3 recombined
RoundTripWitness ==
    /\ shamir.call = "Combine"
    /\ shamir.threshold = 3
    /\ shamir.parts = 4
    /\ Cardinality(shamir.picked) = 3
    /\ shamir.secret = <<65, 255>>
    /\ shamir.out = <<65, 255>>

\* 1 / x, with 0 for the x that has no inverse
inverse(x) == IF x = 0 THEN 0 ELSE div(1, x)

\* the coefficients of z(x) * (1 + c x)
timesLinear(z, c) ==
    [k \in 1..(Len(z) + 1) |->
        add(IF k <= Len(z) THEN z[k] ELSE 0,
            IF k >= 2 THEN mult(c, z[k - 1]) ELSE 0)]

\* the coefficients of the product of (1 + x / xs[j]) over j >= i: the
\* polynomial that is 1 at 0 and 0 at every xs[j]
RECURSIVE vanishing(_, _)
vanishing(xs, i) ==
    IF i > Len(xs) THEN <<1>>
    ELSE timesLinear(vanishing(xs, i + 1), inverse(xs[i]))

\* p moved to intercept c without changing its values at xs
Shifted(p, c, xs) ==
    LET z == vanishing(xs, 1)
        d == add(c, p[1])
    IN  [k \in 1..Len(p) |-> add(p[k], mult(d, IF k <= Len(z) THEN z[k] ELSE 0))]

\* the shares seen, as lists of x values and of bytes at position idx
SeenX(S) ==
    LET order == SetToSeq(S)
    IN  [k \in 1..Len(order) |-> shamir.shares[order[k]][Len(shamir.secret) + 1]]

\* candidate byte c at position idx is consistent with the shares in S: some
\* choice of the threshold - 1 random coefficients gives, with intercept c,
\* exactly the bytes seen
Consistent(c, idx, S) ==
    \E q \in {Shifted(makePolynomial(shamir.secret[idx], shamir.threshold - 1,
                                     shamir.stream, idx), c, SeenX(S))} :
        /\ Len(q) = shamir.threshold
        /\ q[1] = c
        /\ \A i \in S :
              evaluate(q, shamir.shares[i][Len(shamir.secret) + 1]) = shamir.shares[i][idx]

\* C2: secrecy below the threshold.  After a successful Split, for every
\* byte position, every set of fewer shares than the threshold and every
\* candidate value of the secret byte, the shares seen are the ones a run
\* with that candidate as the secret byte can produce.
SecrecyBelowThreshold ==
    (shamir.call = "Split" /\ shamir.err = "nil") =>
        \A idx \in 1..Len(shamir.secret) :
            \A S \in SUBSET PickIndices(shamir.parts) :
                Cardinality(S) < shamir.threshold =>
                    \A c \in CandidateBytes : Consistent(c, idx, S)

\* a two-byte secret split four ways with threshold 3: any two shares are seen
SecrecyWitness ==
    /\ shamir.call = "Split"
    /\ shamir.err = "nil"
    /\ shamir.threshold = 3
    /\ shamir.parts = 4
    /\ shamir.stream = "mixed"
    /\ shamir.secret = <<65, 0>>

\* the parameters the claim has Split reject
RejectedAsClaimed(secret, parts, threshold) ==
    threshold = 0 \/ threshold > parts \/ parts > 255 \/ Len(secret) = 0

\* the parameters Split rejects
Rejected(secret, parts, threshold) ==
    threshold < 2 \/ threshold > parts \/ parts > 255 \/ Len(secret) = 0

\* C10 as stated: Split fails exactly for t = 0, t > n, n > 255 and the empty
\* secret, and so accepts every 1 <= t <= n <= 255 with a non-empty secret,
\* t = 1 included; SplitKeyAndWriteShares, given n paths, reports a split
\* error in exactly those cases.
SplitRejectsAsClaimed ==
    /\ shamir.call = "Split" =>
          (shamir.err # "nil"
              <=> RejectedAsClaimed(shamir.secret, shamir.parts, shamir.threshold))
    /\ (shamir.call = "SplitKeyAndWriteShares" /\ Len(shamir.paths) = shamir.parts) =>
          (shamir.err = "shamir split error"
              <=> RejectedAsClaimed(shamir.secret, shamir.parts, shamir.threshold))

\* C10, amended: Split fails exactly for t < 2 (t = 0 and t = 1), t > n,
\* n > 255 and the empty secret, and accepts every 2 <= t <= n <= 255 with a
\* non-empty secret; SplitKeyAndWriteShares, given n paths, reports a split
\* error in exactly those cases.
SplitRejects ==
    /\ shamir.call = "Split" =>
          (shamir.err # "nil" <=> Rejected(shamir.secret, shamir.parts, shamir.threshold))
    /\ (shamir.call = "SplitKeyAndWriteShares" /\ Len(shamir.paths) = shamir.parts) =>
          (shamir.err = "shamir split error"
              <=> Rejected(shamir.secret, shamir.parts, shamir.threshold))

\* a threshold of one with three parts and a non-empty secret is turned down
SplitRejectsWitness ==
    /\ shamir.call = "Split"
    /\ shamir.threshold = 1
    /\ shamir.parts = 3
    /\ Len(shamir.secret) = 2
    /\ shamir.err = "threshold must be at least 2"

----------------------------------------------------------------------------
(* Properties of the issuance operations (Spec), stated of the last        *)
(* operation run and of the files it left                                  *)

\* what the last operation did, in order
TraceEvents == {last.trace[k].ev : k \in 1..Len(last.trace)}

\* generating a key, reconstructing a parent key, writing a file
KeyWork == {"GenerateKey", "Combine", "ParseECPrivateKey", "WriteFile"}

\* the share destinations a front-end reads from the request
SharePathsOf(fe, req) ==
    IF fe = "cli" THEN ParseCommaSeparatedPaths(req.sharesOut)
    ELSE SplitTrimmed(req.sharesOut)

NumbersRead(req) == req.days.ok /\ req.n.ok /\ req.t.ok

\* C3: in create-root and create-subca of both front-ends, a number of share
\* destinations different from n makes the operation fail before a key pair
\* is generated, before a parent key is reconstructed and before a file is
\* written.
ShareCountCheckedFirst ==
    (/\ last.op \in {"create-root", "create-subca"}
     /\ NumbersRead(last.req)
     /\ Len(SharePathsOf(last.fe, last.req)) # last.req.n.val)
        => (last.err # "nil" /\ TraceEvents \cap KeyWork = {})

\* C4: a successful create-subca issues a certificate with IsCA = true and a
\* path-length constraint one less than the parent certificate's.
SubCAPathLenReduced ==
    (last.op = "create-subca" /\ last.err = "nil")
        => (last.cert.IsCA /\ last.cert.MaxPathLen = last.parentCert.MaxPathLen - 1)

\* n different share files are on disk and every t of them recombine to
\* bytes that parse as the key
ShareSetOnDisk(paths, n, t, key) ==
    /\ Cardinality({paths[i] : i \in 1..Len(paths)}) = n
    /\ \A T \in SUBSET (1..Len(paths)) :
          (Cardinality(T) = t /\ DistinctFiles(paths, T)) =>
              LET r == CombineSharesFromFiles(Start, PickPaths(paths, T))
              IN  r.err = "nil" /\ ParseECPrivateKey(r.keyBytes) = [err |-> "nil", key |-> key]

\* C5: a successful create-subca leaves on disk a certificate whose issuer
\* is the parent's subject and whose signature is by the key of the parent
\* certificate, and a share set of size n of the new key, which is not the
\* parent's key.
SubCAPersisted ==
    (last.op = "create-subca" /\ last.err = "nil") =>
        /\ fs[last.req.pemOut] = CertificatePEM(last.cert)
        /\ last.cert.Issuer = last.parentCert.Subject
        /\ last.cert.SignedBy = last.parentCert.PublicKey
        /\ last.cert.PublicKey = last.priv
        /\ last.priv # last.parentKey
        /\ ShareSetOnDisk(last.sharePaths, last.req.n.val, last.req.t.val, last.priv)

\* C6: a successful create-root leaves on disk a certificate with issuer =
\* subject and IsCA = true, signed by the key it certifies, and exactly n
\* share files of which every t recombine to bytes that parse as that key.
RootPersisted ==
    (last.op = "create-root" /\ last.err = "nil") =>
        /\ fs[last.req.pemOut] = CertificatePEM(last.cert)
        /\ last.cert.Issuer = last.cert.Subject
        /\ last.cert.IsCA
        /\ last.cert.SignedBy = last.cert.PublicKey
        /\ ShareSetOnDisk(last.sharePaths, last.req.n.val, last.req.t.val,
                          last.cert.PublicKey)

\* C7: in create-subca and sign, once the new certificate is signed the
\* operation no longer holds the reconstructed parent key: it is dropped
\* before the new key is split and before anything is written.
ParentKeyDroppedAfterSigning ==
    last.op \in {"create-subca", "sign"} =>
        \A j, k \in 1..Len(last.trace) :
            (j < k /\ last.trace[j].ev = "CreateCertificate")
                => last.trace[k].parentKey = 0

\* C8: no CA key is on disk whole.  Every key file holds a key that was
\* generated and is not the key of a root or subordinate CA, so the keys of
\* the CAs are on disk as share files only.
NoCAKeyWhole ==
    \A p \in PathNames :
        fs[p].type = "EC PRIVATE KEY" =>
            LET k == ParseECPrivateKey(fs[p].bytes)
            IN  /\ k.err = "nil"
                /\ k.key \in 1..(nextKey - 1)
                /\ k.key \notin caKeys

\* a leaf key was exported under a CA whose key is on disk as shares
NoCAKeyWholeWitness ==
    /\ last.op = "sign"
    /\ last.err = "nil"
    /\ fs["k1"].type = "EC PRIVATE KEY"
    /\ caKeys # {}
    /\ last.parentKey \in caKeys
    /\ fs["s1"].type = "base64"

\* C9: every operation of every front-end, given an empty common name,
\* fails, and does so without generating a key, reconstructing a parent key
\* or writing a file; on the command line, where the subject is the first
\* thing read, the failure is the subject error.
SubjectValidated ==
    (last.op # "none" /\ last.req.cn = "" /\ NumbersRead(last.req)) =>
        /\ last.err # "nil"
        /\ last.fe = "cli" => last.err = "common name (CN) is required"
        /\ TraceEvents \cap KeyWork = {}

\* the certificate the last operation wrote is still on disk
CertificateLeft ==
    /\ last.cert # NoCert
    /\ last.req.pemOut \in PathNames
    /\ \E k \in 1..Len(last.trace) :
          last.trace[k].ev = "WriteFile" /\ last.trace[k].path = last.req.pemOut
    /\ fs[last.req.pemOut] = CertificatePEM(last.cert)

\* C11: a create-root or create-subca that returns an error leaves no CA
\* certificate on disk without a complete share set of size n of its key.
NoPartialStateOnFailure ==
    (/\ last.op \in {"create-root", "create-subca"}
     /\ last.err # "nil"
     /\ CertificateLeft)
        => /\ NumbersRead(last.req)
           /\ last.req.n.val >= 1
           /\ ShareSetOnDisk(SharePathsOf(last.fe, last.req), last.req.n.val,
                             last.req.t.val, last.priv)

\* the share destinations of the last operation that were written, and the
\* ones that were not
SharesWritten ==
    {last.trace[k].path : k \in {j \in 1..Len(last.trace) :
        /\ last.trace[j].ev = "WriteFile"
        /\ \E i \in 1..j : last.trace[i].ev = "Split"}}

SharesNotWritten ==
    {last.sharePaths[i] : i \in 1..Len(last.sharePaths)} \ SharesWritten

\* C12: when the certificate was written and the writing of a share then
\* fails, the error names every share destination, the written ones and the
\* ones not written, not only the path that failed.
PartialWriteReported ==
    (/\ last.op \in {"create-root", "create-subca"}
     /\ last.err # "nil"
     /\ "Split" \in TraceEvents)
        => {last.named[i] : i \in 1..Len(last.named)}
              = SharesWritten \cup SharesNotWritten

\* the errors of create-subca and sign for a parent certificate that cannot
\* be read or parsed, shares that do not combine, bytes that are not a key
ParentErrors ==
    {"failed to parse parent certificate", "failed to combine parent shares",
     "failed to parse parent private key"}

\* C13: in create-subca and sign a parent certificate that cannot be read or
\* parsed, a Combine that fails and combined bytes that do not parse as a
\* key each make the operation fail with its error, with no key pair
\* generated and no file written; a key pair is generated only after the
\* parent key was parsed, and the parent certificate is read before any share.
ParentFailureLeavesNothing ==
    last.op \in {"create-subca", "sign"} =>
        /\ last.err \in ParentErrors =>
              /\ TraceEvents \cap {"GenerateKey", "WriteFile"} = {}
              /\ ~last.changed
              /\ last.priv = 0
        /\ \A k \in 1..Len(last.trace) :
              last.trace[k].ev = "GenerateKey" =>
                  \E j \in 1..(k - 1) :
                      last.trace[j].ev = "ParseECPrivateKey" /\ last.trace[j].key # 0
        /\ Len(last.trace) >= 1 =>
              (last.trace[1].ev = "ReadFile" /\ last.trace[1].path = last.req.parentPem)
        /\ (/\ ~last.changed
            /\ last.fe = "gui" \/ (last.req.cn # "" /\ NumbersRead(last.req))
            /\ last.req.parentPem \in PathNames
            /\ fs[last.req.parentPem].type # "CERTIFICATE")
              => last.err = "failed to parse parent certificate"

\* the shares of another CA combined without error to bytes that are no key
ParentFailureWitness ==
    /\ last.op = "create-subca"
    /\ last.err = "failed to parse parent private key"
    /\ "Combine" \in TraceEvents
    /\ fs[last.req.parentPem].type = "CERTIFICATE"

\* C14: no silent overwrite.  An operation never replaces the content of a
\* file an earlier invocation has written: a destination that collides with
\* an existing file makes the operation fail and leaves the file as it was.
NoSilentOverwrite ==
    [][\A p \in PathNames : fs[p] # NoFile => fs'[p] = fs[p]]_vars

\* C15: a successful sign issues a certificate with IsCA = false, no
\* path-length constraint and as key usage exactly the flags the caller
\* selected among the seven; certificate signing is never added.
LeafCertificateShape ==
    (last.op = "sign" /\ last.err = "nil") =>
        /\ last.cert.IsCA = FALSE
        /\ last.cert.MaxPathLen = -1
        /\ last.cert.KeyUsage = last.req.usage
        /\ last.cert.KeyUsage \subseteq UsageFlags
        /\ "CertSign" \notin last.cert.KeyUsage
        /\ fs[last.req.pemOut] = CertificatePEM(last.cert)

\* a leaf issued from the GUI with all seven flags selected
LeafCertificateWitness ==
    /\ last.op = "sign"
    /\ last.fe = "gui"
    /\ last.err = "nil"
    /\ last.req.usage = UsageFlags
    /\ Cardinality(last.cert.KeyUsage) = 7
    /\ last.cert.SignedBy = last.parentKey

\* the places in the trace where a key file was written
KeyFileWrites ==
    {k \in 2..Len(last.trace) :
        last.trace[k].ev = "WriteFile" /\ last.trace[k - 1].ev = "MarshalECPrivateKey"}

\* C16: sign writes the new leaf key to a file exactly when a key output
\* path was given; without one no file holds the leaf key, clear or split;
\* and the key file is written only after the certificate was written.
LeafKeyExport ==
    last.op = "sign" =>
        /\ last.err = "nil" => (KeyFileWrites # {} <=> last.req.keyOut # "")
        /\ \A k \in KeyFileWrites :
              /\ last.req.keyOut # ""
              /\ last.trace[k].path = last.req.keyOut
              /\ last.trace[k - 1].key = last.priv
              /\ fs[last.req.keyOut] = ECPrivateKeyPEM(MarshalECPrivateKey(last.priv))
              /\ \E j \in 1..(k - 1) :
                    last.trace[j].ev = "WriteFile" /\ last.trace[j].path = last.req.pemOut
        /\ (last.req.keyOut = "" /\ last.priv # 0) =>
              /\ "Split" \notin TraceEvents
              /\ \A p \in PathNames :
                    fs[p].type = "EC PRIVATE KEY" =>
                        ParseECPrivateKey(fs[p].bytes).key # last.priv

\* a leaf issued with its key exported to k1, after the certificate
LeafKeyExportWitness ==
    /\ last.op = "sign"
    /\ last.err = "nil"
    /\ last.req.keyOut = "k1"
    /\ KeyFileWrites # {}
    /\ fs["k1"].type = "EC PRIVATE KEY"

\* days * 24 hours in nanoseconds as the integer it is, in limbs
RECURSIVE timesFactorsExact(_, _, _)
timesFactorsExact(v, factors, i) ==
    IF i > Len(factors) THEN v
    ELSE timesFactorsExact(mulLimbs(v, factors[i], 1, 0), factors, i + 1)

ExactNanoseconds(days) ==
    timesFactorsExact(mulLimbs(<<days % LimbBase, days \div LimbBase>>, 24, 1, 0),
                      HourFactors, 1)

RECURSIVE stripZeros(_)
stripZeros(v) ==
    IF Len(v) > 0 /\ v[Len(v)] = 0 THEN stripZeros(SubSeq(v, 1, Len(v) - 1)) ELSE v

\* the int64 duration is not negative and is the integer days * 24h
IsExactly(duration, days) ==
    /\ duration[Int64Limbs] < TopLimbBase \div 2
    /\ stripZeros(duration) = stripZeros(ExactNanoseconds(days))

\* C17: every certificate issued for d days, d any number of days the
\* front-ends accept (d >= 0 here), has NotAfter - NotBefore equal to exactly
\* d * 24 hours, with no wrap-around of the duration arithmetic.
ValidityWindowExact ==
    (last.op # "none" /\ last.err = "nil" /\ last.req.days.val >= 0)
        => IsExactly(last.cert.Validity, last.req.days.val)

\* one year is exactly 8760 hours
ValidityOneYear ==
    (last.op # "none" /\ last.err = "nil" /\ last.req.days.val = 365)
        => IsExactly(last.cert.Validity, 365)


----------------------------------------------------------------------------
(* What Combine checks of its input (SpecEngine) *)

\* the identity of a share: its last byte
IdentityOf(share) == share[Len(share)]

SameLengths(parts) == \A i, j \in 1..Len(parts) : Len(parts[i]) = Len(parts[j])

NoEmptyShare(parts) == \A i \in 1..Len(parts) : Len(parts[i]) >= 1

DistinctIdentities(parts) ==
    \A i, j \in 1..Len(parts) : i # j => IdentityOf(parts[i]) # IdentityOf(parts[j])

NonZeroIdentities(parts) == \A i \in 1..Len(parts) : IdentityOf(parts[i]) # 0

\* C18 as stated: Combine accepts any list of at least one share, fails when
\* the shares differ in length, when two carry the same identity and when an
\* identity is zero, and returns no bytes with an error.
CombineValidatesAsClaimed ==
    shamir.call = "CombineAny" =>
        /\ (/\ Len(shamir.shares) >= 1
            /\ \A i \in 1..Len(shamir.shares) : Len(shamir.shares[i]) >= 2
            /\ SameLengths(shamir.shares)
            /\ DistinctIdentities(shamir.shares)
            /\ NonZeroIdentities(shamir.shares)) => shamir.cerr = "nil"
        /\ ~SameLengths(shamir.shares) => shamir.cerr # "nil"
        /\ (NoEmptyShare(shamir.shares) /\ ~DistinctIdentities(shamir.shares))
              => shamir.cerr # "nil"
        /\ (NoEmptyShare(shamir.shares) /\ ~NonZeroIdentities(shamir.shares))
              => shamir.cerr # "nil"
        /\ shamir.cerr # "nil" => shamir.out = <<>>

\* C18: Combine accepts exactly the lists of at least two shares, of one
\* length of at least two bytes, with pairwise distinct identities.  Fewer
\* than two shares fail; then shares of different lengths fail with the
\* length error; then two shares of one identity fail with the duplicate
\* error.  An identity of zero is not rejected: the bytes returned are then
\* the data bytes of the share that carries it.  With an error no bytes are
\* returned, without one as many as a share has data bytes.
CombineValidates ==
    shamir.call = "CombineAny" =>
        /\ shamir.cerr = "nil" <=>
              /\ Len(shamir.shares) >= 2
              /\ Len(shamir.shares[1]) >= 2
              /\ SameLengths(shamir.shares)
              /\ DistinctIdentities(shamir.shares)
        /\ Len(shamir.shares) < 2 =>
              shamir.cerr = "less than two parts cannot be used to reconstruct the secret"
        /\ (/\ Len(shamir.shares) >= 2
            /\ Len(shamir.shares[1]) >= 2
            /\ ~SameLengths(shamir.shares))
              => shamir.cerr = "all parts must be the same length"
        /\ (/\ Len(shamir.shares) >= 2
            /\ Len(shamir.shares[1]) >= 2
            /\ SameLengths(shamir.shares)
            /\ ~DistinctIdentities(shamir.shares))
              => shamir.cerr = "duplicate part detected"
        /\ shamir.cerr # "nil" => shamir.out = <<>>
        /\ shamir.cerr = "nil" =>
              /\ Len(shamir.out) = Len(shamir.shares[1]) - 1
              /\ \A i \in 1..Len(shamir.shares) :
                    IdentityOf(shamir.shares[i]) = 0 =>
                        shamir.out = SubSeq(shamir.shares[i], 1, Len(shamir.shares[i]) - 1)

\* a share of identity zero combined with a well-formed one: accepted, and
\* the data byte of the zero share comes back
CombineValidatesWitness ==
    /\ shamir.call = "CombineAny"
    /\ shamir.shares = <<<<9, 0>>, <<5, 1>>>>
    /\ shamir.cerr = "nil"
    /\ shamir.out = <<9>>


\* C19 as stated: Combine over any k shares of one Split, 1 <= k < t, raises
\* no error and returns as many bytes as the secret has, different from it.
UnderQuorumAsClaimed ==
    (/\ shamir.call = "Combine"
     /\ Cardinality(shamir.picked) >= 1
     /\ Cardinality(shamir.picked) < shamir.threshold)
        => /\ shamir.cerr = "nil"
           /\ Len(shamir.out) = Len(shamir.secret)
           /\ shamir.out # shamir.secret

\* C19: Combine over k shares of one Split, 2 <= k < t, raises no error and
\* returns as many bytes as the secret has; they need not differ from the
\* secret, and are the secret when the random coefficients are all zero.
\* Combine over one share or none fails and returns no bytes.
UnderQuorum ==
    (shamir.call = "Combine" /\ Cardinality(shamir.picked) < shamir.threshold)
        => /\ Cardinality(shamir.picked) >= 2 =>
                 /\ shamir.cerr = "nil"
                 /\ Len(shamir.out) = Len(shamir.secret)
                 /\ shamir.stream = "zero" => shamir.out = shamir.secret
           /\ Cardinality(shamir.picked) < 2 =>
                 /\ shamir.cerr # "nil"
                 /\ shamir.out = <<>>

\* two of four shares of a two-byte secret split with threshold 3: no error,
\* two bytes, not the secret
UnderQuorumWitness ==
    /\ shamir.call = "Combine"
    /\ shamir.threshold = 3
    /\ shamir.parts = 4
    /\ shamir.picked = {1, 2}
    /\ shamir.secret = <<65, 255>>
    /\ shamir.cerr = "nil"
    /\ Len(shamir.out) = 2
    /\ shamir.out # shamir.secret

\* C20: share-set invariant.  Every successful Split(s, n, t) returns exactly
\* n shares, each of len(s) + 1 bytes, whose identities are pairwise distinct
\* and not zero.
ShareSetInvariant ==
    (shamir.call = "Split" /\ shamir.err = "nil") =>
        /\ Len(shamir.shares) = shamir.parts
        /\ \A i \in 1..Len(shamir.shares) :
              /\ Len(shamir.shares[i]) = Len(shamir.secret) + 1
              /\ IdentityOf(shamir.shares[i]) \in 1..255
        /\ DistinctIdentities(shamir.shares)

\* a two-byte secret split into four shares of three bytes
ShareSetWitness ==
    /\ shamir.call = "Split"
    /\ shamir.err = "nil"
    /\ shamir.parts = 4
    /\ shamir.threshold = 3
    /\ Len(shamir.secret) = 2
    /\ Len(shamir.shares) = 4
    /\ {IdentityOf(shamir.shares[i]) : i \in 1..4} = {252, 253, 254, 255}


----------------------------------------------------------------------------
(* The two front-ends compared (Spec) *)

\* the files a run wrote
FilesWritten(trace) ==
    {trace[k].path : k \in {j \in 1..Len(trace) : trace[j].ev = "WriteFile"}}

\* the same request handed to the other front-end, in the same state
OtherFrontEnd(op, fe, req) ==
    LET perm == CHOOSE p \in OpPerms : TRUE
        stream == CHOOSE s \in OpStreams : TRUE
    IN  CASE op = "create-root" /\ fe = "cli" -> GuiCreateRoot(Start, req, perm, stream)
          [] op = "create-root" /\ fe = "gui" -> CliCreateRoot(Start, req, perm, stream)
          [] op = "create-subca" /\ fe = "cli" -> GuiCreateSubCA(Start, req, perm, stream)
          [] op = "create-subca" /\ fe = "gui" -> CliCreateSubCA(Start, req, perm, stream)
          [] op = "sign" /\ fe = "cli" -> GuiSign(Start, req)
          [] OTHER -> CliSign(Start, req)

\* C21: front-end equivalence.  Whatever operation one front-end runs, the
\* other front-end given the same entries in the same state ends the same
\* way: it succeeds or fails alike, writes the same files and leaves the same
\* file system.
FrontEndsAgree ==
    [][last'.op # "none" =>
          LET other == OtherFrontEnd(last'.op, last'.fe, last'.req)
          IN  /\ (other.err = "nil") = (last'.err = "nil")
              /\ FilesWritten(other.st.trace) = FilesWritten(last'.trace)
              /\ other.st.fs = fs']_vars


----------------------------------------------------------------------------
(* The share files SplitKeyAndWriteShares leaves (SpecEngine) *)

\* C23: distinct share destinations.  Whenever SplitKeyAndWriteShares
\* returns success, the n destinations are n different files, each holding a
\* share no other holds, and the files of any t positions of the destination
\* list recombine to the key that was split.
ShareDestinationsDistinct ==
    (shamir.call = "SplitKeyAndWriteShares" /\ shamir.err = "nil") =>
        /\ Cardinality({shamir.paths[i] : i \in 1..Len(shamir.paths)}) = shamir.parts
        /\ \A i, j \in 1..Len(shamir.paths) :
              i # j => /\ fs[shamir.paths[i]].type = "base64"
                       /\ fs[shamir.paths[i]] # fs[shamir.paths[j]]
        /\ \A T \in SUBSET (1..Len(shamir.paths)) :
              Cardinality(T) = shamir.threshold =>
                  LET r == CombineSharesFromFiles(Start, PickPaths(shamir.paths, T))
                  IN  r.err = "nil" /\ r.keyBytes = shamir.secret


----------------------------------------------------------------------------
(* Chains of CA certificates (SpecChain) *)

\* the CA certificates on disk
CACertificates ==
    {fs[p].cert : p \in {q \in PathNames : fs[q].type = "CERTIFICATE" /\ fs[q].cert.IsCA}}

\* c was issued by the CA that a certifies
IssuedUnder(c, a) == c.SignedBy = a.PublicKey /\ c.PublicKey # a.PublicKey

Largest(S) == IF S = {} THEN 0 ELSE CHOOSE x \in S : \A y \in S : y <= x

\* the most CA certificates below a on one chain, counted down to depth k
RECURSIVE CAsBelow(_, _)
CAsBelow(a, k) ==
    IF k = 0 THEN 0
    ELSE Largest({1 + CAsBelow(c, k - 1) : c \in {d \in CACertificates : IssuedUnder(d, a)}})

\* C22: path-length soundness.  Whatever create-root and create-subca
\* operations ran, a CA certificate with path-length constraint k has at
\* most k CA certificates below it on any chain of the certificates on disk;
\* and a create-subca under a parent that is itself the last CA its issuer's
\* constraint allows is refused.
PathLenSound ==
    /\ \A a \in CACertificates : CAsBelow(a, MaxChainKeys) <= a.MaxPathLen
    /\ (/\ last.op = "create-subca"
        /\ last.parentCert.IsCA
        /\ \/ last.parentCert.MaxPathLen = 0
           \/ \E a \in CACertificates :
                 /\ IssuedUnder(last.parentCert, a)
                 /\ a.MaxPathLen <= 1)
          => last.err # "nil"

\* C24: the parent key matches the parent certificate.  create-subca and
\* sign write a certificate only when the key parsed from the combined
\* shares is the key the parent certificate certifies, and the certificate
\* then names the parent as issuer and is signed by that key; with a key
\* that parses and is another CA's, the operation fails and writes nothing.
ParentKeyMatches ==
    last.op \in {"create-subca", "sign"} =>
        /\ FilesWritten(last.trace) # {} =>
              /\ last.parentKey = last.parentCert.PublicKey
              /\ last.cert.Issuer = last.parentCert.Subject
              /\ last.cert.SignedBy = last.parentCert.PublicKey
        /\ (last.parentKey # 0 /\ last.parentKey # last.parentCert.PublicKey) =>
              /\ last.err # "nil"
              /\ last.cert = NoCert
              /\ FilesWritten(last.trace) = {}

\* the root's certificate handed over with the shares of the CA below it:
\* the key parses, is not the root's, and the operation fails
ParentKeyMatchesWitness ==
    /\ last.op \in {"create-subca", "sign"}
    /\ last.parentCert.Subject = "A"
    /\ last.parentCert.PublicKey = 1
    /\ last.parentKey = 2
    /\ last.err # "nil"
    /\ FilesWritten(last.trace) = {}


----------------------------------------------------------------------------
(* Who signs a new certificate (Spec) *)

\* the certificate is self-signed: issuer = subject, signed by the key it
\* certifies
IsSelfSigned(cert) == cert.Issuer = cert.Subject /\ cert.SignedBy = cert.PublicKey

\* GenerateKeyAndCert called now with this parent certificate and key
Generated(parentCert, parentKey) ==
    GenerateKeyAndCert(Start, "X", parentCert, parentKey, TRUE, 365, {})

\* C25: the self-signing rule.  GenerateKeyAndCert returns a self-signed
\* certificate, signed by the key it has just generated, exactly when the
\* parent certificate or the parent key is nil, and otherwise a certificate
\* issued by the parent certificate and signed by the parent key.
\* create-subca and sign call it with a parent certificate and a parent key
\* that are both there, and the certificate they produce is not self-signed;
\* the certificate of create-root is.
SelfSigningRule ==
    /\ (last.op = "create-root" /\ last.cert # NoCert) =>
          (IsSelfSigned(last.cert) /\ last.cert.PublicKey = last.priv)
    /\ (last.op \in {"create-subca", "sign"} /\ "GenerateKey" \in TraceEvents) =>
          (last.parentCert # NoCert /\ last.parentKey # 0)
    /\ (last.op \in {"create-subca", "sign"} /\ last.cert # NoCert) =>
          /\ ~IsSelfSigned(last.cert)
          /\ last.cert.Issuer = last.parentCert.Subject
          /\ last.cert.SignedBy = last.parentKey
          /\ last.cert.PublicKey = last.priv
          /\ \A pc \in {NoCert, last.parentCert}, pk \in {0, last.parentKey} :
                LET g == Generated(pc, pk)
                IN  /\ g.err = "nil"
                    /\ g.certPEM.cert.PublicKey = g.priv
                    /\ IsSelfSigned(g.certPEM.cert) <=> (pc = NoCert \/ pk = 0)
                    /\ ~(pc = NoCert \/ pk = 0) =>
                          /\ g.certPEM.cert.Issuer = pc.Subject
                          /\ g.certPEM.cert.SignedBy = pk

\* a subordinate CA issued under the root: issuer A, signed by the root's key
SelfSigningRuleWitness ==
    /\ last.op = "create-subca"
    /\ last.err = "nil"
    /\ last.cert.Subject = "B"
    /\ last.cert.Issuer = "A"
    /\ last.cert.PublicKey = 2
    /\ last.cert.SignedBy = 1
    /\ last.parentCert.Subject = "A"
    /\ last.parentKey = 1

====
